---- MODULE Spec2Model ----
(***************************************************************************)
(* Client application of the document authoring platform.                  *)
(*                                                                         *)
(*   SpecWizard : the New Project wizard (pages/NewProject.js)             *)
(*   SpecEditor : the Project Editor (pages/ProjectEditor.js) together     *)
(*                with the refinement/generation endpoints it calls        *)
(*   SpecReview : the editor's feedback and export handlers                *)
(*   SpecAuth   : AuthProvider, authAPI and the api interceptors           *)
(*   SpecSession: session initialisation and login, with fairness          *)
(*   SpecDashboard : the project list (pages/Dashboard.js)                 *)
(*                                                                         *)
(* React semantics kept by the model: a handler reads the state variables  *)
(* of the render in which it was invoked.  A synchronous handler therefore *)
(* reads the current state; the continuation of an async handler (the code *)
(* after an await) still reads the values captured when the handler was    *)
(* invoked, and a setter called there replaces the whole state variable.   *)
(***************************************************************************)
EXTENDS Integers, Sequences, FiniteSets, TLC

VARIABLES
  (* ---- NewProject.js ---- *)
  step,        \* useState(1)
  formData,    \* useState({title, topic, description, document_type})
  structure,   \* useState([]) : sequence of [id, title, order]
  loading,     \* useState(false)
  clock,       \* Date.now()
  outlineCall, \* the running generateAIOutline, or Idle
  createCall,  \* the running createProject, or Idle
  tempProjects,\* server: temporary projects created by generateAIOutline and not deleted
  wToast,      \* kind of the last toast shown by the wizard
  nEdits,      \* number of structure edits made so far (bounded by MaxEdits)
  wPage,       \* "wizard" until navigate() leaves the page
  (* ---- ProjectEditor.js ---- *)
  project,            \* useState(null), after fetchProject: [status, secs]; secs names an array
  arrays,             \* the sections/slides arrays alive in the page, by reference
  generating,         \* useState({})
  refinementPrompts,  \* useState({})
  refinementResults,  \* useState({}) : per item the refined_content of the result, or Null
  calls,              \* async handler invocations whose request is still in flight
  nCalls,             \* number of requests sent so far
  nTyped,             \* number of prompt edits so far (bounded by MaxTyped)
  nGenerations,       \* number of generation requests sent so far
  last,               \* outcome and toast of the handler that finished last
  hist,               \* per item: the refine calls completed since its last accept/reject
  (* ---- server behind /refinement and /generation ---- *)
  srvContent,         \* stored content of each item
  srvPending,         \* pending Refinement Result of each item
  comments,           \* useState({}) : comment text per item
  srvFeedback,        \* server: number of Feedback records appended
  nExtra,             \* number of feedback and export requests sent so far
  downloads,          \* number of files handed to the browser by link.click()
  (* ---- browser storage, services/api, context/AuthContext ---- *)
  lsToken,            \* localStorage item 'token' (NoToken when absent)
  envKeyIsToken,      \* process.env.REACT_APP_TOKEN_STORAGE_KEY names the item 'token'
  clerkSignedIn,      \* isClerkEnabled && isSignedIn && actualClerkUser
  user,               \* useState(null)
  authLoading,        \* useState(true)
  token,              \* useState(localStorage.getItem('token'))
  effectDue,          \* the initAuth effect is scheduled (mount, or a dependency changed)
  reloadDue,          \* window.location.href = '/login' was assigned: the page reloads
  authCalls,          \* auth operations with a request in flight
  nAuth,              \* number of auth requests sent so far
  issued,             \* server: number of tokens issued so far
  authLast,           \* the auth operation that completed last and what it returned
  aToast,             \* notification shown by the last step, or NoToast
  (* ---- Dashboard.js ---- *)
  projects,           \* useState([]) : ids of the projects listed
  listLoading,        \* useState(true) : the spinner replaces the list
  dashCalls,          \* fetchProjects / handleDelete invocations with a request in flight
  nDash,              \* number of dashboard requests sent so far
  dashLast,           \* outcome and toast of the dashboard handler that finished last
  removed,            \* projects whose delete succeeded since the list was last refetched
  srvProjects         \* server: ids of the projects stored

wizardVars == <<step, formData, structure, loading, clock, outlineCall,
                createCall, tempProjects, wToast, nEdits, wPage>>

editorVars == <<project, arrays, generating, refinementPrompts, refinementResults,
                calls, nCalls, nTyped, nGenerations, last, hist, srvContent,
                srvPending>>

\* ProjectEditor.js, feedback and export
feedbackVars == <<comments, srvFeedback, nExtra, downloads>>

\* state of the pages and services other than the wizard and the editor
authVars == <<lsToken, envKeyIsToken, clerkSignedIn, user, authLoading, token,
              effectDue, reloadDue, authCalls, nAuth, issued, authLast, aToast>>

\* pages/Dashboard.js and the /projects endpoints it calls
dashVars == <<projects, listLoading, dashCalls, nDash, dashLast, removed, srvProjects>>

elsewhere == <<authVars, dashVars>>

vars == <<wizardVars, editorVars, feedbackVars, elsewhere>>

(***************************************************************************)
(* Values                                                                  *)
(***************************************************************************)
Idle == [phase |-> "idle"]
NoToast == "none"

\* Strings are sequences of characters so that trim() can be computed.
Blank == " "
Letter == "x"
EmptyStr == << >>
TextInputs == {EmptyStr, <<Blank>>, <<Letter>>}

IsBlank(ch) == ch = Blank

RECURSIVE TrimLeft(_)
TrimLeft(s) ==
  IF s = << >> THEN s
  ELSE IF IsBlank(Head(s)) THEN TrimLeft(Tail(s)) ELSE s

RECURSIVE TrimRight(_)
TrimRight(s) ==
  IF s = << >> THEN s
  ELSE IF IsBlank(s[Len(s)]) THEN TrimRight(SubSeq(s, 1, Len(s) - 1)) ELSE s

\* String.prototype.trim
Trim(s) == TrimRight(TrimLeft(s))

\* JavaScript truthiness of a string
Truthy(s) == s # EmptyStr

(***************************************************************************)
(* Bounds                                                                  *)
(***************************************************************************)
MaxLen == 3        \* addSection is offered while structure is shorter than this
MaxClock == 3      \* Date.now() values handed out to addSection
MaxOutlines == 1   \* generateAIOutline runs
MaxEdits == 3      \* addSection/updateSection/removeSection/moveSection calls

\* generationAPI.generateOutline(tempProject.id, 5)
OutlineCount == 5

DocTypes == {"docx", "pptx"}
SectionTitles == {"t"}

(***************************************************************************)
(* New Project wizard                                                      *)
(***************************************************************************)
InitWizard ==
  /\ step = 1
  /\ formData = [title |-> EmptyStr, topic |-> EmptyStr, document_type |-> "docx"]
  /\ structure = << >>
  /\ loading = FALSE
  /\ clock = 1
  /\ outlineCall = Idle
  /\ createCall = Idle
  /\ tempProjects = 0
  /\ wToast = NoToast
  /\ nEdits = 0
  /\ wPage = "wizard"

\* handleInputChange / the document type cards (step 1 only)
handleInputChange ==
  /\ wPage = "wizard" /\ step = 1
  /\ \E field \in {"title", "topic"}, v \in TextInputs :
       formData' = [formData EXCEPT ![field] = v]
  /\ UNCHANGED <<nEdits, editorVars, feedbackVars, elsewhere>>
  /\ UNCHANGED <<step, structure, loading, clock, outlineCall, createCall,
                 tempProjects, wToast, wPage>>

setDocumentType ==
  /\ wPage = "wizard" /\ step = 1
  /\ \E d \in DocTypes : formData' = [formData EXCEPT !.document_type = d]
  /\ UNCHANGED <<nEdits, editorVars, feedbackVars, elsewhere>>
  /\ UNCHANGED <<step, structure, loading, clock, outlineCall, createCall,
                 tempProjects, wToast, wPage>>

\* variant of the check below that forgets the topic
FormRejectedTitleOnly(form) == ~Truthy(Trim(form.title))

\* `!formData.title.trim() || !formData.topic.trim()`
FormRejected(form) == ~Truthy(Trim(form.title)) \/ ~Truthy(Trim(form.topic))

handleNext ==
  /\ wPage = "wizard" /\ step = 1
  /\ IF FormRejected(formData)
       THEN /\ wToast' = "error"
            /\ UNCHANGED step
       ELSE /\ step' = step + 1
            /\ UNCHANGED wToast
  /\ UNCHANGED <<nEdits, editorVars, feedbackVars, elsewhere>>
  /\ UNCHANGED <<formData, structure, loading, clock, outlineCall, createCall,
                 tempProjects, wPage>>

\* the Back button of step 2: setStep(1)
handleBack ==
  /\ wPage = "wizard" /\ step = 2
  /\ step' = 1
  /\ UNCHANGED <<nEdits, editorVars, feedbackVars, elsewhere>>
  /\ UNCHANGED <<formData, structure, loading, clock, outlineCall, createCall,
                 tempProjects, wToast, wPage>>

\* what the server's outline endpoint answers: OutlineCount ordered stubs
ServerOutline == [k \in 1..OutlineCount |-> [id |-> 100 + k, title |-> "g", order |-> k]]

addSectionResult(s, now) ==
  Append(s, [id |-> now, title |-> "", order |-> Len(s) + 1])

addSection ==
  /\ wPage = "wizard" /\ step = 2
  /\ nEdits < MaxEdits
  /\ nEdits' = nEdits + 1
  /\ UNCHANGED <<editorVars, feedbackVars, elsewhere>>
  /\ Len(structure) < MaxLen
  /\ \E now \in {clock, clock + 1} :
       /\ now <= MaxClock
       /\ clock' = now
       /\ structure' = addSectionResult(structure, now)
  /\ UNCHANGED <<step, formData, loading, outlineCall, createCall,
                 tempProjects, wToast, wPage>>

updateSectionResult(s, id, title) ==
  [k \in 1..Len(s) |-> IF s[k].id = id THEN [s[k] EXCEPT !.title = title] ELSE s[k]]

updateSection ==
  /\ wPage = "wizard" /\ step = 2
  /\ nEdits < MaxEdits
  /\ nEdits' = nEdits + 1
  /\ UNCHANGED <<editorVars, feedbackVars, elsewhere>>
  /\ \E k \in 1..Len(structure), title \in SectionTitles :
       structure' = updateSectionResult(structure, structure[k].id, title)
  /\ UNCHANGED <<step, formData, loading, clock, outlineCall, createCall,
                 tempProjects, wToast, wPage>>

RECURSIVE Filter(_, _)
Filter(s, id) ==
  IF s = << >> THEN << >>
  ELSE IF Head(s).id # id THEN <<Head(s)>> \o Filter(Tail(s), id)
       ELSE Filter(Tail(s), id)

removeSectionResult(s, id) == Filter(s, id)

removeSection ==
  /\ wPage = "wizard" /\ step = 2
  /\ nEdits < MaxEdits
  /\ nEdits' = nEdits + 1
  /\ UNCHANGED <<editorVars, feedbackVars, elsewhere>>
  /\ \E k \in 1..Len(structure) :
       structure' = removeSectionResult(structure, structure[k].id)
  /\ UNCHANGED <<step, formData, loading, clock, outlineCall, createCall,
                 tempProjects, wToast, wPage>>

\* variant of the function below that copies the item instead of swapping
moveSectionResultCopy(s, index, direction) ==
  LET target == IF direction = "up" THEN index - 1 ELSE index + 1 IN
  IF target >= 1 /\ target <= Len(s)
    THEN LET copied == [s EXCEPT ![target] = s[index]]
         IN  [k \in 1..Len(s) |-> [copied[k] EXCEPT !.order = k]]
    ELSE s

\* index is 1-based here; direction is "up" or "down"
moveSectionResult(s, index, direction) ==
  LET target == IF direction = "up" THEN index - 1 ELSE index + 1 IN
  IF target >= 1 /\ target <= Len(s)
    THEN LET swapped == [s EXCEPT ![index] = s[target], ![target] = s[index]]
         IN  [k \in 1..Len(s) |-> [swapped[k] EXCEPT !.order = k]]
    ELSE s

\* the up button is disabled at the first item, the down button at the last
moveSection ==
  /\ wPage = "wizard" /\ step = 2
  /\ nEdits < MaxEdits
  /\ nEdits' = nEdits + 1
  /\ UNCHANGED <<editorVars, feedbackVars, elsewhere>>
  /\ \E index \in 1..Len(structure), direction \in {"up", "down"} :
       /\ direction = "up" => index # 1
       /\ direction = "down" => index # Len(structure)
       /\ structure' = moveSectionResult(structure, index, direction)
  /\ UNCHANGED <<step, formData, loading, clock, outlineCall, createCall,
                 tempProjects, wToast, wPage>>

(* ---- generateAIOutline: create temp project, outline, delete temp ---- *)

\* button disabled while loading; setLoading(true); first request sent
generateAIOutlineStart ==
  /\ wPage = "wizard" /\ step = 2
  /\ ~loading
  /\ outlineCall.phase = "idle"
  /\ tempProjects < MaxOutlines
  /\ loading' = TRUE
  /\ outlineCall' = [phase |-> "create", form |-> formData]
  /\ UNCHANGED <<nEdits, editorVars, feedbackVars, elsewhere>>
  /\ UNCHANGED <<step, formData, structure, clock, createCall,
                 tempProjects, wToast, wPage>>

\* catch + finally of generateAIOutline
generateAIOutlineCatch ==
  /\ wToast' = "error"
  /\ loading' = FALSE
  /\ outlineCall' = Idle

\* response to projectsAPI.createProject(temp)
generateAIOutlineCreated ==
  /\ outlineCall.phase = "create"
  /\ \/ /\ tempProjects' = tempProjects + 1
        /\ outlineCall' = [outlineCall EXCEPT !.phase = "outline"]
        /\ UNCHANGED <<loading, wToast>>
     \/ /\ generateAIOutlineCatch
        /\ UNCHANGED tempProjects
  /\ UNCHANGED <<nEdits, editorVars, feedbackVars, elsewhere>>
  /\ UNCHANGED <<step, formData, structure, clock, createCall, wPage>>

\* response to generationAPI.generateOutline(tempProject.id, 5)
generateAIOutlineOutlined ==
  /\ outlineCall.phase = "outline"
  /\ \/ /\ structure' = ServerOutline
        /\ outlineCall' = [outlineCall EXCEPT !.phase = "delete"]
        /\ UNCHANGED <<loading, wToast>>
     \/ /\ generateAIOutlineCatch
        /\ UNCHANGED structure
  /\ UNCHANGED <<nEdits, editorVars, feedbackVars, elsewhere>>
  /\ UNCHANGED <<step, formData, clock, createCall, tempProjects, wPage>>

\* response to projectsAPI.deleteProject(tempProject.id), then finally
generateAIOutlineDeleted ==
  /\ outlineCall.phase = "delete"
  /\ \/ /\ tempProjects' = tempProjects - 1
        /\ wToast' = "success"
        /\ loading' = FALSE
        /\ outlineCall' = Idle
     \/ /\ generateAIOutlineCatch
        /\ UNCHANGED tempProjects
  /\ UNCHANGED <<nEdits, editorVars, feedbackVars, elsewhere>>
  /\ UNCHANGED <<step, formData, structure, clock, createCall, wPage>>

(* ---- createProject ---- *)

\* the list createProject puts into the request as sections or slides
createProjectData(form, s) ==
  [phase |-> "sent", title |-> form.title, topic |-> form.topic,
   document_type |-> form.document_type, items |-> s]

\* button disabled while loading or with an empty structure
createProjectStart ==
  /\ wPage = "wizard" /\ step = 2
  /\ ~loading /\ Len(structure) # 0
  /\ createCall.phase = "idle"
  /\ loading' = TRUE
  /\ createCall' = createProjectData(formData, structure)
  /\ UNCHANGED <<nEdits, editorVars, feedbackVars, elsewhere>>
  /\ UNCHANGED <<step, formData, structure, clock, outlineCall, tempProjects,
                 wToast, wPage>>

\* response to projectsAPI.createProject(projectData), then finally
createProjectDone ==
  /\ createCall.phase = "sent"
  /\ \/ /\ wToast' = "success"
        /\ wPage' = "editor"
     \/ /\ wToast' = "error"
        /\ UNCHANGED wPage
  /\ loading' = FALSE
  /\ createCall' = Idle
  /\ UNCHANGED <<nEdits, editorVars, feedbackVars, elsewhere>>
  /\ UNCHANGED <<step, formData, structure, clock, outlineCall,
                 tempProjects>>

NextWizard ==
  \/ handleInputChange
  \/ setDocumentType
  \/ handleNext
  \/ handleBack
  \/ addSection
  \/ updateSection
  \/ removeSection
  \/ moveSection
  \/ generateAIOutlineStart
  \/ generateAIOutlineCreated
  \/ generateAIOutlineOutlined
  \/ generateAIOutlineDeleted
  \/ createProjectStart
  \/ createProjectDone

(***************************************************************************)
(* Project Editor                                                          *)
(***************************************************************************)
Items == {1, 2}          \* ids of the sections (docx) or slides (pptx) of the project

\* item.content of an item nothing was generated for (falsy)
NoContent == 0
\* refinementResults[itemId] when null or undefined (falsy)
Null == 0
\* refinementPrompts[itemId] before anything was typed
Undefined == <<"undefined">>

MaxCalls == 4      \* request budget of one run: a generation request takes two units
MaxInFlight == 2   \* requests in flight at the same time
MaxTyped == 3      \* edits of the refinement prompt inputs

PromptInputs == {<<Blank>>, <<Letter>>}

NoResults == [i \in Items |-> Null]
NoPrompts == [i \in Items |-> Undefined]
NotGenerating == [i \in Items |-> FALSE]
NoProject == [status |-> "-", secs |-> 1]
NoLast == [kind |-> "none", item |-> 0, outcome |-> "none", toast |-> "none"]

\* item.content of item i in the project object p
ContentIn(p, i) == arrays[p.secs][i]
ItemContent(i) == ContentIn(project, i)

InFlight(kind, i) == {c \in calls : c.kind = kind /\ c.item = i}

\* variant of the check below without trim(): `!prompt`
PromptRejectedNoTrim(prompt) ==
  IF prompt = Undefined THEN TRUE ELSE ~Truthy(prompt)

\* `!prompt?.trim()`
PromptRejected(prompt) ==
  IF prompt = Undefined THEN TRUE ELSE ~Truthy(Trim(prompt))

\* variant of the guard below that renders the refinement input for every item
RefineInputAlways(i) == i \in Items

\* `{content && ( ... refinement input, Refine button ...)}`
RefineInputShown(i) == ItemContent(i) # NoContent

\* variant of the guard below that renders Accept / Reject for every item
RefinementAlwaysShown(i) == i \in Items

\* `{hasRefinement && ( ... Accept / Reject ...)}`
RefinementShown(i) == refinementResults[i] # Null

\* the Generate Content button: rendered without content, disabled while generating
GenerateEnabled(i) == ItemContent(i) = NoContent /\ ~generating[i]

InitEditor ==
  /\ srvContent \in {f \in [Items -> {NoContent, 1}] : f[2] # NoContent => f[1] # NoContent}
  /\ srvPending = [i \in Items |-> NoContent]
  /\ arrays = <<srvContent>>
  /\ project = [status |-> "draft", secs |-> 1]
  /\ generating = NotGenerating
  /\ refinementPrompts = NoPrompts
  /\ refinementResults = NoResults
  /\ calls = {}
  /\ nCalls = 0
  /\ nTyped = 0
  /\ nGenerations = 0
  /\ last = NoLast
  /\ hist = [i \in Items |-> << >>]
  /\ comments = NoPrompts
  /\ srvFeedback = 0
  /\ nExtra = 0
  /\ downloads = 0

NewCall(kind, i) ==
  [id |-> nCalls + 1, kind |-> kind, item |-> i, phase |-> "sent", reason |-> "none",
   resp |-> NoContent, prompt |-> EmptyStr, atSend |-> NoContent,
   expect |-> NoContent, cProject |-> NoProject, cResults |-> NoResults,
   cPrompts |-> NoPrompts, cGenerating |-> NotGenerating, respItems |-> NoResults,
   liked |-> "null", comment |-> EmptyStr, cComments |-> NoPrompts]

Spent == nCalls + nGenerations + nExtra
CanSend == Spent < MaxCalls /\ Cardinality(calls) < MaxInFlight
CanGenerate == Spent + 1 < MaxCalls /\ Cardinality(calls) < MaxInFlight
CanSendExtra == Spent + 1 < MaxCalls /\ Cardinality(calls) < MaxInFlight

Done(kind, i, outcome, toast) ==
  [kind |-> kind, item |-> i, outcome |-> outcome, toast |-> toast]

\* the text the AI adapter produces for request c; 1 is the text loaded with the project
Text(c) == c.id + 1

\* hist entry of a completed refine call: its id and the number of requests sent
\* by the time its response was handled.  Call b was in flight together with
\* call a iff each was sent before the other completed.
Overlapped(a, b) == a.id <= b.doneAt /\ b.id <= a.doneAt

\* keep the last two entries
Remember(h, e) == IF Len(h) < 2 THEN Append(h, e) ELSE <<h[2], e>>

(* ---- refinement prompt input, onChange ---- *)
setRefinementPrompt(i) ==
  /\ RefineInputShown(i)
  /\ nTyped < MaxTyped
  /\ nTyped' = nTyped + 1
  /\ \E v \in PromptInputs :
       /\ v # refinementPrompts[i]
       /\ refinementPrompts' = [refinementPrompts EXCEPT ![i] = v]
  /\ UNCHANGED <<project, arrays, generating, refinementResults, calls, nCalls,
                 last, hist, srvContent, srvPending>>
  /\ UNCHANGED <<nGenerations, wizardVars, feedbackVars, elsewhere>>

(* ---- refineContent ---- *)
\* up to the await: validate the prompt, send the request
refineContent(i) ==
  /\ RefineInputShown(i)
  /\ IF PromptRejected(refinementPrompts[i])
       THEN /\ last' = Done("refine", i, "invalid", "Please enter a refinement prompt")
            /\ UNCHANGED <<calls, nCalls>>
       ELSE /\ CanSend
            /\ calls' = calls \cup {[NewCall("refine", i) EXCEPT
                                       !.prompt = refinementPrompts[i],
                                       !.atSend = ItemContent(i),
                                       !.cResults = refinementResults,
                                       !.cPrompts = refinementPrompts]}
            /\ nCalls' = nCalls + 1
            /\ UNCHANGED last
  /\ UNCHANGED <<project, arrays, generating, refinementPrompts, refinementResults,
                 hist, srvContent, srvPending>>
  /\ UNCHANGED <<nTyped, nGenerations, wizardVars, feedbackVars, elsewhere>>

\* POST /refinement/refine/{projectId}/{itemId}
serverRefine(c) ==
  /\ c.kind = "refine" /\ c.phase = "sent"
  /\ \/ /\ Truthy(c.prompt) /\ srvContent[c.item] # NoContent
        /\ srvPending' = [srvPending EXCEPT ![c.item] = Text(c)]
        /\ calls' = (calls \ {c}) \cup {[c EXCEPT !.phase = "ok", !.resp = Text(c)]}
     \/ /\ calls' = (calls \ {c}) \cup {[c EXCEPT !.phase = "err", !.reason = "failed"]}
        /\ UNCHANGED srvPending
  /\ UNCHANGED <<project, arrays, generating, refinementPrompts, refinementResults,
                 nCalls, last, hist, srvContent>>
  /\ UNCHANGED <<nTyped, nGenerations, wizardVars, feedbackVars, elsewhere>>

\* variant of the test below that runs the try body whatever the answer
refineResolvedAlways(phase) == phase \in {"ok", "err"}

\* `await refinementAPI...` resolves on a successful answer and throws otherwise
refineResolved(phase) == phase = "ok"

\* setRefinementResults({ ...refinementResults, [itemId]: result })
refineResults(captured, i, result) == [captured EXCEPT ![i] = result]

\* setRefinementPrompts({ ...refinementPrompts, [itemId]: '' })
refinePrompts(captured, i) == [captured EXCEPT ![i] = EmptyStr]

\* after the await: the try body on success, the catch on failure
refineContentDone(c) ==
  /\ c.kind = "refine" /\ c.phase # "sent"
  /\ calls' = calls \ {c}
  /\ IF refineResolved(c.phase)
       THEN /\ refinementResults' = refineResults(c.cResults, c.item, c.resp)
            /\ refinementPrompts' = refinePrompts(c.cPrompts, c.item)
            /\ last' = Done("refine", c.item, "ok", "Content refined successfully!")
            /\ hist' = [hist EXCEPT ![c.item] =
                          Remember(@, [id |-> c.id, doneAt |-> nCalls])]
       ELSE /\ last' = Done("refine", c.item, "failed", "Error refining content")
            /\ UNCHANGED <<refinementResults, refinementPrompts, hist>>
  /\ UNCHANGED <<project, arrays, generating, nCalls, srvContent, srvPending>>
  /\ UNCHANGED <<nTyped, nGenerations, wizardVars, feedbackVars, elsewhere>>

(* ---- acceptRefinement ---- *)
\* what two refine calls made one after the other lead a following accept to install
SequentialResult(i) ==
  IF /\ Len(hist[i]) = 2
     /\ ~Overlapped(hist[i][1], hist[i][2])
     /\ InFlight("refine", i) = {}
    THEN Text(hist[i][2])
    ELSE NoContent

\* up to the await: send the request
acceptRefinement(i) ==
  /\ RefinementShown(i)
  /\ CanSend
  /\ calls' = calls \cup {[NewCall("accept", i) EXCEPT
                             !.expect = SequentialResult(i),
                             !.cProject = project,
                             !.cResults = refinementResults]}
  /\ nCalls' = nCalls + 1
  /\ hist' = [hist EXCEPT ![i] = << >>]
  /\ UNCHANGED <<project, arrays, generating, refinementPrompts, refinementResults,
                 last, srvContent, srvPending>>
  /\ UNCHANGED <<nTyped, nGenerations, wizardVars, feedbackVars, elsewhere>>

\* POST /refinement/accept/{projectId}/{itemId}
serverAccept(c) ==
  /\ c.kind = "accept" /\ c.phase = "sent"
  /\ IF srvPending[c.item] = NoContent
       THEN /\ calls' = (calls \ {c}) \cup
                          {[c EXCEPT !.phase = "err", !.reason = "NoPendingRefinement"]}
            /\ UNCHANGED <<srvContent, srvPending>>
       ELSE \/ /\ srvContent' = [srvContent EXCEPT ![c.item] = srvPending[c.item]]
               /\ srvPending' = [srvPending EXCEPT ![c.item] = NoContent]
               /\ calls' = (calls \ {c}) \cup {[c EXCEPT !.phase = "ok"]}
            \/ /\ calls' = (calls \ {c}) \cup
                             {[c EXCEPT !.phase = "err", !.reason = "failed"]}
               /\ UNCHANGED <<srvContent, srvPending>>
  /\ UNCHANGED <<project, arrays, generating, refinementPrompts, refinementResults,
                 nCalls, last, hist>>
  /\ UNCHANGED <<nTyped, nGenerations, wizardVars, feedbackVars, elsewhere>>

\* setRefinementResults({ ...refinementResults, [itemId]: null })
acceptResults(captured, i) == [captured EXCEPT ![i] = Null]

\* items[itemIndex].content = refinementResults[itemId].refined_content
acceptContent(captured, i) == captured[i]

\* after the await: the try body on success (a TypeError on a null result lands
\* in the catch), the catch on failure
acceptRefinementDone(c) ==
  /\ c.kind = "accept" /\ c.phase # "sent"
  /\ calls' = calls \ {c}
  /\ IF refineResolved(c.phase) /\ c.cResults[c.item] # Null
       THEN /\ arrays' = [arrays EXCEPT ![c.cProject.secs][c.item] =
                                           acceptContent(c.cResults, c.item)]
            /\ project' = c.cProject
            /\ refinementResults' = acceptResults(c.cResults, c.item)
            /\ last' = Done("accept", c.item, "ok", "Refinement accepted!")
       ELSE /\ last' = Done("accept", c.item,
                            IF c.phase = "ok" THEN "TypeError" ELSE c.reason,
                            "Error accepting refinement")
            /\ UNCHANGED <<arrays, project, refinementResults>>
  /\ UNCHANGED <<generating, refinementPrompts, nCalls, hist, srvContent, srvPending>>
  /\ UNCHANGED <<nTyped, nGenerations, wizardVars, feedbackVars, elsewhere>>

(* ---- rejectRefinement ---- *)
\* variant of the update below that spreads the old results and clears nothing
rejectKeepsResult(results, i) == [j \in Items |-> results[j]]

\* setRefinementResults({ ...refinementResults, [itemId]: null })
rejectRefinementResult(results, i) == [results EXCEPT ![i] = Null]

rejectRefinement(i) ==
  /\ RefinementShown(i)
  /\ refinementResults' = rejectRefinementResult(refinementResults, i)
  /\ last' = Done("reject", i, "ok", "Refinement rejected")
  /\ hist' = [hist EXCEPT ![i] = << >>]
  /\ UNCHANGED <<project, arrays, generating, refinementPrompts, calls, nCalls,
                 srvContent, srvPending>>
  /\ UNCHANGED <<nTyped, nGenerations, wizardVars, feedbackVars, elsewhere>>

(* ---- generateContent ---- *)
generateContent(i) ==
  /\ GenerateEnabled(i)
  /\ CanGenerate
  /\ nGenerations' = nGenerations + 1
  /\ generating' = [generating EXCEPT ![i] = TRUE]
  /\ calls' = calls \cup {[NewCall("generate", i) EXCEPT
                             !.cProject = project,
                             !.cGenerating = generating]}
  /\ nCalls' = nCalls + 1
  /\ UNCHANGED <<project, arrays, refinementPrompts, refinementResults, last, hist,
                 srvContent, srvPending>>
  /\ UNCHANGED <<nTyped, wizardVars, feedbackVars, elsewhere>>

\* POST /generation/section|slide/{projectId}/{itemId}
serverGenerate(c) ==
  /\ c.kind = "generate" /\ c.phase = "sent"
  /\ \/ /\ srvContent' = [srvContent EXCEPT ![c.item] = Text(c)]
        /\ calls' = (calls \ {c}) \cup {[c EXCEPT !.phase = "ok", !.resp = Text(c)]}
     \/ /\ calls' = (calls \ {c}) \cup {[c EXCEPT !.phase = "err", !.reason = "failed"]}
        /\ UNCHANGED srvContent
  /\ UNCHANGED <<project, arrays, generating, refinementPrompts, refinementResults,
                 nCalls, last, hist, srvPending>>
  /\ UNCHANGED <<nTyped, nGenerations, wizardVars, feedbackVars, elsewhere>>

\* variant of the test below that runs the try body whatever the answer
generateResolvedAlways(phase) == phase \in {"ok", "err"}

\* the await resolves on a successful answer and throws otherwise
generateResolved(phase) == phase = "ok"

\* after the await: try body or catch, then finally; the item's content stands
\* for the pair content / generated_at, both copied from the result
generateContentDone(c) ==
  /\ c.kind = "generate" /\ c.phase # "sent"
  /\ calls' = calls \ {c}
  /\ IF generateResolved(c.phase)
       THEN /\ arrays' = [arrays EXCEPT ![c.cProject.secs][c.item] = c.resp]
            /\ project' = c.cProject
            /\ last' = Done("generate", c.item, "ok", "Content generated successfully!")
       ELSE /\ last' = Done("generate", c.item, "failed", "Error generating content")
            /\ UNCHANGED <<arrays, project>>
  /\ generating' = [c.cGenerating EXCEPT ![c.item] = FALSE]
  /\ UNCHANGED <<refinementPrompts, refinementResults, nCalls, hist, srvContent,
                 srvPending>>
  /\ UNCHANGED <<nTyped, nGenerations, wizardVars, feedbackVars, elsewhere>>

(* ---- generateAllContent ---- *)
generateAllContent ==
  /\ CanGenerate
  /\ nGenerations' = nGenerations + 1
  /\ calls' = calls \cup {[NewCall("generateAll", 0) EXCEPT !.cProject = project]}
  /\ nCalls' = nCalls + 1
  /\ last' = Done("generateAll", 0, "sent", "Generating all content...")
  /\ UNCHANGED <<project, arrays, generating, refinementPrompts, refinementResults,
                 hist, srvContent, srvPending>>
  /\ UNCHANGED <<nTyped, wizardVars, feedbackVars, elsewhere>>

\* POST /generation/all-sections/{projectId}: every item, or every item still
\* without content, gets a new text; the answer carries the whole list
serverGenerateAll(c) ==
  /\ c.kind = "generateAll" /\ c.phase = "sent"
  /\ \/ \E all \in BOOLEAN :
          LET new == [i \in Items |->
                        IF all \/ srvContent[i] = NoContent
                          THEN Text(c) ELSE srvContent[i]]
          IN  /\ srvContent' = new
              /\ calls' = (calls \ {c}) \cup {[c EXCEPT !.phase = "ok", !.respItems = new]}
     \/ /\ calls' = (calls \ {c}) \cup {[c EXCEPT !.phase = "err", !.reason = "failed"]}
        /\ UNCHANGED srvContent
  /\ UNCHANGED <<project, arrays, generating, refinementPrompts, refinementResults,
                 nCalls, last, hist, srvPending>>
  /\ UNCHANGED <<nTyped, nGenerations, wizardVars, feedbackVars, elsewhere>>

generateAllContentDone(c) ==
  /\ c.kind = "generateAll" /\ c.phase # "sent"
  /\ calls' = calls \ {c}
  /\ IF generateResolved(c.phase)
       THEN /\ arrays' = Append(arrays, c.respItems)
            /\ project' = [status |-> "completed", secs |-> Len(arrays) + 1]
            /\ last' = Done("generateAll", 0, "ok", "All content generated successfully!")
       ELSE /\ last' = Done("generateAll", 0, "failed", "Error generating all content")
            /\ UNCHANGED <<arrays, project>>
  /\ UNCHANGED <<generating, refinementPrompts, refinementResults, nCalls, hist,
                 srvContent, srvPending>>
  /\ UNCHANGED <<nTyped, nGenerations, wizardVars, feedbackVars, elsewhere>>

(* ---- feedback: comment input, Good / Needs work / comment buttons ---- *)
CommentInputs == {<<Letter>>}
LikedValues == {"true", "false", "null"}

\* the comment input, onChange
setComment(i) ==
  /\ RefineInputShown(i)
  /\ nTyped < MaxTyped
  /\ nTyped' = nTyped + 1
  /\ \E v \in CommentInputs :
       /\ v # comments[i]
       /\ comments' = [comments EXCEPT ![i] = v]
  /\ UNCHANGED <<srvFeedback, nExtra, downloads>>
  /\ UNCHANGED <<project, arrays, generating, refinementPrompts, refinementResults,
                 calls, nCalls, nGenerations, last, hist, srvContent, srvPending>>
  /\ UNCHANGED <<wizardVars, elsewhere>>

\* `comments[itemId] || ''`
CommentSent(text) == IF text = Undefined \/ ~Truthy(text) THEN EmptyStr ELSE text

\* up to the await: send the request
submitFeedback(i, liked) ==
  /\ RefineInputShown(i)
  /\ CanSendExtra
  /\ calls' = calls \cup {[NewCall("feedback", i) EXCEPT
                             !.liked = liked,
                             !.comment = CommentSent(comments[i]),
                             !.cComments = comments]}
  /\ nCalls' = nCalls + 1
  /\ nExtra' = nExtra + 1
  /\ UNCHANGED <<comments, srvFeedback, downloads>>
  /\ UNCHANGED <<project, arrays, generating, refinementPrompts, refinementResults,
                 nTyped, nGenerations, last, hist, srvContent, srvPending>>
  /\ UNCHANGED <<wizardVars, elsewhere>>

\* POST /refinement/feedback/{projectId}/{itemId}: appends a Feedback record
serverFeedback(c) ==
  /\ c.kind = "feedback" /\ c.phase = "sent"
  /\ \/ /\ srvFeedback' = srvFeedback + 1
        /\ calls' = (calls \ {c}) \cup {[c EXCEPT !.phase = "ok"]}
     \/ /\ calls' = (calls \ {c}) \cup {[c EXCEPT !.phase = "err", !.reason = "failed"]}
        /\ UNCHANGED srvFeedback
  /\ UNCHANGED <<comments, nExtra, downloads>>
  /\ UNCHANGED <<project, arrays, generating, refinementPrompts, refinementResults,
                 nCalls, nTyped, nGenerations, last, hist, srvContent, srvPending>>
  /\ UNCHANGED <<wizardVars, elsewhere>>

\* setComments({ ...comments, [itemId]: '' })
feedbackComments(captured, i) == [captured EXCEPT ![i] = EmptyStr]

\* after the await: the try body on success, the catch on failure
submitFeedbackDone(c) ==
  /\ c.kind = "feedback" /\ c.phase # "sent"
  /\ calls' = calls \ {c}
  /\ IF c.phase = "ok"
       THEN /\ comments' = feedbackComments(c.cComments, c.item)
            /\ last' = Done("feedback", c.item, "ok", "Feedback submitted!")
       ELSE /\ last' = Done("feedback", c.item, "failed", "Error submitting feedback")
            /\ UNCHANGED comments
  /\ UNCHANGED <<srvFeedback, nExtra, downloads>>
  /\ UNCHANGED <<project, arrays, generating, refinementPrompts, refinementResults,
                 nCalls, nTyped, nGenerations, hist, srvContent, srvPending>>
  /\ UNCHANGED <<wizardVars, elsewhere>>

(* ---- exportDocument ---- *)
\* up to the await: toast.loading, send the request
exportDocument ==
  /\ CanSendExtra
  /\ calls' = calls \cup {[NewCall("export", 0) EXCEPT !.cProject = project]}
  /\ nCalls' = nCalls + 1
  /\ nExtra' = nExtra + 1
  /\ last' = Done("export", 0, "sent", "Preparing document for download...")
  /\ UNCHANGED <<comments, srvFeedback, downloads>>
  /\ UNCHANGED <<project, arrays, generating, refinementPrompts, refinementResults,
                 nTyped, nGenerations, hist, srvContent, srvPending>>
  /\ UNCHANGED <<wizardVars, elsewhere>>

\* the Export Adapter's completeness rule
ExportComplete(content) == \A i \in Items : content[i] # NoContent

\* GET /export/{projectId}: all or nothing
serverExport(c) ==
  /\ c.kind = "export" /\ c.phase = "sent"
  /\ IF ExportComplete(srvContent)
       THEN \/ calls' = (calls \ {c}) \cup {[c EXCEPT !.phase = "ok"]}
            \/ calls' = (calls \ {c}) \cup {[c EXCEPT !.phase = "err", !.reason = "failed"]}
       ELSE calls' = (calls \ {c}) \cup {[c EXCEPT !.phase = "err", !.reason = "ExportFailed"]}
  /\ UNCHANGED <<comments, srvFeedback, nExtra, downloads>>
  /\ UNCHANGED <<project, arrays, generating, refinementPrompts, refinementResults,
                 nCalls, nTyped, nGenerations, last, hist, srvContent, srvPending>>
  /\ UNCHANGED <<wizardVars, elsewhere>>

\* variant of the function below that builds the download link whatever the answer
exportClicksAlways(phase) == 1

\* link.click() runs in the try body, after the await resolved
exportClicks(phase) == IF phase = "ok" THEN 1 ELSE 0

\* after the await: the try body on success, the catch on failure
exportDocumentDone(c) ==
  /\ c.kind = "export" /\ c.phase # "sent"
  /\ calls' = calls \ {c}
  /\ downloads' = downloads + exportClicks(c.phase)
  /\ last' = IF c.phase = "ok"
               THEN Done("export", 0, "ok", "Document downloaded successfully!")
               ELSE Done("export", 0, c.reason, "Error downloading document")
  /\ UNCHANGED <<comments, srvFeedback, nExtra>>
  /\ UNCHANGED <<project, arrays, generating, refinementPrompts, refinementResults,
                 nCalls, nTyped, nGenerations, hist, srvContent, srvPending>>
  /\ UNCHANGED <<wizardVars, elsewhere>>

\* the editor's feedback and export workflows, next to refinement and generation
NextReview ==
  \/ \E i \in Items : setRefinementPrompt(i)
  \/ \E i \in Items : refineContent(i)
  \/ \E c \in calls : serverRefine(c)
  \/ \E c \in calls : refineContentDone(c)
  \/ \E i \in Items : generateContent(i)
  \/ \E c \in calls : serverGenerate(c)
  \/ \E c \in calls : generateContentDone(c)
  \/ \E i \in Items : setComment(i)
  \/ \E i \in Items, liked \in LikedValues : submitFeedback(i, liked)
  \/ \E c \in calls : serverFeedback(c)
  \/ \E c \in calls : submitFeedbackDone(c)
  \/ exportDocument
  \/ \E c \in calls : serverExport(c)
  \/ \E c \in calls : exportDocumentDone(c)

NextEditor ==
  \/ \E i \in Items : setRefinementPrompt(i)
  \/ \E i \in Items : refineContent(i)
  \/ \E c \in calls : serverRefine(c)
  \/ \E c \in calls : refineContentDone(c)
  \/ \E i \in Items : acceptRefinement(i)
  \/ \E c \in calls : serverAccept(c)
  \/ \E c \in calls : acceptRefinementDone(c)
  \/ \E i \in Items : rejectRefinement(i)
  \/ \E i \in Items : generateContent(i)
  \/ \E c \in calls : serverGenerate(c)
  \/ \E c \in calls : generateContentDone(c)
  \/ generateAllContent
  \/ \E c \in calls : serverGenerateAll(c)
  \/ \E c \in calls : generateAllContentDone(c)

(***************************************************************************)
(* Authentication: AuthProvider, authAPI, AuthService, api interceptors    *)
(***************************************************************************)
NoToken == 0
NoUser == "none"
NoAuthLast == [op |-> "none", success |-> FALSE]

MaxAuthOps == 3      \* auth requests sent in one run
MaxAuthInFlight == 2 \* login / register / logout operations running together

\* isAuthenticated: !!user
isAuthenticated == user # NoUser

\* request interceptor: Authorization header of a request sent now (NoToken: none)
Authorization == lsToken

\* a request leaving the client: the header the interceptor gave it and whether
\* the client took the user for authenticated at that moment
AuthCall(kind, at, parent) ==
  [id |-> nAuth + 1, kind |-> kind, step |-> at, parent |-> parent,
   phase |-> "sent", hdr |-> Authorization, authed |-> isAuthenticated,
   tok |-> NoToken]

\* React flushes a scheduled effect before it runs the next event handler or
\* continuation; an assigned location.href ends the page
ClientRuns == ~effectDue /\ ~reloadDue

UserOps == {c \in authCalls : c.kind # "initAuth"}
CanStartAuth == nAuth < MaxAuthOps /\ Cardinality(UserOps) < MaxAuthInFlight /\ ClientRuns

\* AuthProvider state on a page load
InitAuth ==
  /\ lsToken \in {NoToken, 1}
  /\ issued = 1
  /\ token = lsToken
  /\ envKeyIsToken \in BOOLEAN
  /\ clerkSignedIn \in BOOLEAN
  /\ user = NoUser
  /\ authLoading = TRUE
  /\ effectDue = TRUE
  /\ reloadDue = FALSE
  /\ authCalls = {}
  /\ nAuth = 0
  /\ authLast = NoAuthLast
  /\ aToast = NoToast

\* setToken(v): a changed dependency schedules the initAuth effect again
EffectAfterToken(v) == effectDue \/ v # token

\* response interceptor: a 401 removes the stored token and assigns location.href
\* variant of the test below that takes every failure for a 401
UnauthorizedAnyError(c) == c.phase \in {"err401", "err"}

Unauthorized(c) == c.phase = "err401"
StoredAfterAnswer(c) == IF Unauthorized(c) THEN NoToken ELSE lsToken
ReloadAfterAnswer(c) == reloadDue \/ Unauthorized(c)

(* ---- initAuth (useEffect) ---- *)
initAuth ==
  /\ effectDue /\ ~reloadDue
  /\ effectDue' = FALSE
  /\ aToast' = NoToast
  /\ IF clerkSignedIn
       THEN /\ user' = "clerk"
            /\ authLoading' = FALSE
            /\ UNCHANGED <<authCalls, nAuth>>
       ELSE IF token # NoToken
         THEN /\ authCalls' = authCalls \cup {AuthCall("initAuth", "me", "none")}
              /\ nAuth' = nAuth + 1
              /\ UNCHANGED <<user, authLoading>>
         ELSE /\ authLoading' = FALSE
              /\ UNCHANGED <<user, authCalls, nAuth>>
  /\ UNCHANGED <<lsToken, envKeyIsToken, clerkSignedIn, token, reloadDue, issued,
                 authLast>>
  /\ UNCHANGED <<wizardVars, editorVars, feedbackVars, dashVars>>

\* the server behind /auth: a request other than login and register needs a
\* bearer token; login answers with a new token
serverAuth(c) ==
  /\ c.phase = "sent" /\ c.step # "signOut"
  /\ \/ /\ c.step \in {"login", "register"} \/ c.hdr # NoToken
        /\ IF c.step = "login"
             THEN /\ issued' = issued + 1
                  /\ authCalls' = (authCalls \ {c}) \cup
                                    {[c EXCEPT !.phase = "ok", !.tok = issued + 1]}
             ELSE /\ authCalls' = (authCalls \ {c}) \cup {[c EXCEPT !.phase = "ok"]}
                  /\ UNCHANGED issued
     \/ /\ authCalls' = (authCalls \ {c}) \cup {[c EXCEPT !.phase = "err401"]}
        /\ UNCHANGED issued
     \/ /\ c.hdr # NoToken \/ c.step \in {"login", "register"}
        /\ authCalls' = (authCalls \ {c}) \cup {[c EXCEPT !.phase = "err"]}
        /\ UNCHANGED issued
  /\ UNCHANGED <<lsToken, envKeyIsToken, clerkSignedIn, user, authLoading, token,
                 effectDue, reloadDue, nAuth, authLast, aToast>>
  /\ UNCHANGED <<wizardVars, editorVars, feedbackVars, dashVars>>

\* after `await authAPI.getCurrentUser()`: try body, or catch (console.error only)
initAuthDone(c) ==
  /\ c.kind = "initAuth" /\ c.phase # "sent" /\ ClientRuns
  /\ authCalls' = authCalls \ {c}
  /\ aToast' = NoToast
  /\ authLoading' = FALSE
  /\ IF c.phase = "ok"
       THEN /\ user' = "jwt"
            /\ UNCHANGED <<lsToken, token, effectDue, reloadDue>>
       ELSE /\ lsToken' = NoToken
            /\ token' = NoToken
            /\ effectDue' = EffectAfterToken(NoToken)
            /\ reloadDue' = ReloadAfterAnswer(c)
            /\ UNCHANGED user
  /\ UNCHANGED <<envKeyIsToken, clerkSignedIn, nAuth, issued, authLast>>
  /\ UNCHANGED <<wizardVars, editorVars, feedbackVars, dashVars>>

\* the browser follows window.location.href = '/login': the app starts again
pageReload ==
  /\ reloadDue
  /\ reloadDue' = FALSE
  /\ user' = NoUser
  /\ authLoading' = TRUE
  /\ token' = lsToken
  /\ effectDue' = TRUE
  /\ authCalls' = {}
  /\ aToast' = NoToast
  /\ UNCHANGED <<lsToken, envKeyIsToken, clerkSignedIn, nAuth, issued, authLast>>
  /\ UNCHANGED <<wizardVars, editorVars, feedbackVars, dashVars>>

(* ---- login (Login.handleSubmit -> AuthProvider.login) ---- *)
\* the Login page navigates away once `!loading && isAuthenticated`
login ==
  /\ CanStartAuth
  /\ authLoading \/ ~isAuthenticated
  /\ \A c \in authCalls : ~(c.kind = "login" /\ c.parent = "none")
  /\ authCalls' = authCalls \cup {AuthCall("login", "login", "none")}
  /\ nAuth' = nAuth + 1
  /\ aToast' = NoToast
  /\ UNCHANGED <<lsToken, envKeyIsToken, clerkSignedIn, user, authLoading, token,
                 effectDue, reloadDue, issued, authLast>>
  /\ UNCHANGED <<wizardVars, editorVars, feedbackVars, dashVars>>

\* what the operation started by call c returns when its login part returned ok
LoginReturns(c, ok) ==
  IF c.parent = "register"
    THEN [op |-> "register", success |-> TRUE]
    ELSE [op |-> "login", success |-> ok]

\* Login.handleSubmit: toast.success('Welcome back!') / toast.error(result.error)
LoginToast(c, ok) ==
  IF c.parent = "register" THEN NoToast ELSE IF ok THEN "success" ELSE "error"

\* after `await authAPI.login(credentials)`
loginAnswered(c) ==
  /\ c.kind = "login" /\ c.step = "login" /\ c.phase # "sent" /\ ClientRuns
  /\ IF c.phase = "ok"
       THEN /\ lsToken' = c.tok
            /\ token' = c.tok
            /\ effectDue' = EffectAfterToken(c.tok)
            /\ authCalls' = (authCalls \ {c}) \cup
                              {[c EXCEPT !.step = "me", !.phase = "sent",
                                         !.hdr = c.tok, !.authed = isAuthenticated]}
            /\ aToast' = NoToast
            /\ UNCHANGED <<reloadDue, authLast>>
       ELSE /\ lsToken' = StoredAfterAnswer(c)
            /\ reloadDue' = ReloadAfterAnswer(c)
            /\ authCalls' = authCalls \ {c}
            /\ authLast' = LoginReturns(c, FALSE)
            /\ aToast' = LoginToast(c, FALSE)
            /\ UNCHANGED <<token, effectDue>>
  /\ UNCHANGED <<envKeyIsToken, clerkSignedIn, user, authLoading, nAuth, issued>>
  /\ UNCHANGED <<wizardVars, editorVars, feedbackVars, dashVars>>

\* after `await authAPI.getCurrentUser()` in login
loginDone(c) ==
  /\ c.kind = "login" /\ c.step = "me" /\ c.phase # "sent" /\ ClientRuns
  /\ authCalls' = authCalls \ {c}
  /\ IF c.phase = "ok"
       THEN /\ user' = "jwt"
            /\ UNCHANGED <<lsToken, reloadDue>>
       ELSE /\ lsToken' = StoredAfterAnswer(c)
            /\ reloadDue' = ReloadAfterAnswer(c)
            /\ UNCHANGED user
  /\ authLast' = LoginReturns(c, c.phase = "ok")
  /\ aToast' = LoginToast(c, c.phase = "ok")
  /\ UNCHANGED <<envKeyIsToken, clerkSignedIn, authLoading, token, effectDue, nAuth,
                 issued>>
  /\ UNCHANGED <<wizardVars, editorVars, feedbackVars, dashVars>>

(* ---- register (AuthProvider.register) ---- *)
\* Home offers Register to a visitor only (`user` is null)
register ==
  /\ CanStartAuth
  /\ ~isAuthenticated
  /\ \A c \in authCalls : c.kind # "register" /\ c.parent # "register"
  /\ authCalls' = authCalls \cup {AuthCall("register", "register", "register")}
  /\ nAuth' = nAuth + 1
  /\ aToast' = NoToast
  /\ UNCHANGED <<lsToken, envKeyIsToken, clerkSignedIn, user, authLoading, token,
                 effectDue, reloadDue, issued, authLast>>
  /\ UNCHANGED <<wizardVars, editorVars, feedbackVars, dashVars>>

\* after `await authAPI.register(userData)`: auto login, or the catch
registerAnswered(c) ==
  /\ c.kind = "register" /\ c.phase # "sent" /\ ClientRuns
  /\ aToast' = NoToast
  /\ IF c.phase = "ok"
       THEN /\ authCalls' = (authCalls \ {c}) \cup
                              {[AuthCall("login", "login", "register") EXCEPT !.id = c.id]}
            /\ UNCHANGED <<lsToken, reloadDue, authLast>>
       ELSE /\ authCalls' = authCalls \ {c}
            /\ lsToken' = StoredAfterAnswer(c)
            /\ reloadDue' = ReloadAfterAnswer(c)
            /\ authLast' = [op |-> "register", success |-> FALSE]
  /\ UNCHANGED <<envKeyIsToken, clerkSignedIn, user, authLoading, token, effectDue,
                 nAuth, issued>>
  /\ UNCHANGED <<wizardVars, editorVars, feedbackVars, dashVars>>

(* ---- logout (Header.handleLogout -> AuthProvider.logout) ---- *)
\* up to the first await: Clerk signOut when signed in there, else authAPI.logout
logout ==
  /\ isAuthenticated
  /\ CanStartAuth
  /\ \A c \in authCalls : c.kind # "logout"
  /\ authCalls' = authCalls \cup
                    {AuthCall("logout", IF clerkSignedIn THEN "signOut" ELSE "logout", "none")}
  /\ nAuth' = nAuth + 1
  /\ aToast' = NoToast
  /\ UNCHANGED <<lsToken, envKeyIsToken, clerkSignedIn, user, authLoading, token,
                 effectDue, reloadDue, issued, authLast>>
  /\ UNCHANGED <<wizardVars, editorVars, feedbackVars, dashVars>>

\* variant of the finally block below that forgets localStorage
logoutStoredKept(stored) == stored

\* finally: localStorage.removeItem('token')
logoutStored(stored) == NoToken

\* finally of AuthProvider.logout, then Header's toast
logoutFinally(c) ==
  /\ authCalls' = authCalls \ {c}
  /\ user' = NoUser
  /\ token' = NoToken
  /\ effectDue' = EffectAfterToken(NoToken)
  /\ lsToken' = logoutStored(lsToken)
  /\ authLast' = [op |-> "logout", success |-> TRUE]
  /\ aToast' = "success"

\* `await signOut()` of the hosted identity provider settles
logoutSignedOut(c) ==
  /\ c.kind = "logout" /\ c.step = "signOut" /\ ClientRuns
  /\ \/ /\ clerkSignedIn' = FALSE
        /\ authCalls' = (authCalls \ {c}) \cup
                          {[c EXCEPT !.step = "logout", !.hdr = Authorization,
                                     !.authed = isAuthenticated]}
        /\ effectDue' = TRUE
        /\ aToast' = NoToast
        /\ UNCHANGED <<lsToken, user, token, authLast>>
     \/ /\ logoutFinally(c)
        /\ UNCHANGED clerkSignedIn
  /\ UNCHANGED <<envKeyIsToken, authLoading, reloadDue, nAuth, issued>>
  /\ UNCHANGED <<wizardVars, editorVars, feedbackVars, dashVars>>

\* after `await authAPI.logout()`: resolved or thrown, the finally block runs
logoutDone(c) ==
  /\ c.kind = "logout" /\ c.step = "logout" /\ c.phase # "sent" /\ ClientRuns
  /\ logoutFinally(c)
  /\ reloadDue' = ReloadAfterAnswer(c)
  /\ UNCHANGED <<envKeyIsToken, clerkSignedIn, authLoading, nAuth, issued>>
  /\ UNCHANGED <<wizardVars, editorVars, feedbackVars, dashVars>>

(* ---- AuthService.logout ---- *)
\* localStorage.removeItem(process.env.REACT_APP_TOKEN_STORAGE_KEY), then
\* window.Clerk.signOut() with its failure caught
serviceLogout ==
  /\ nAuth < MaxAuthOps /\ ClientRuns
  /\ nAuth' = nAuth + 1
  /\ lsToken' = IF envKeyIsToken THEN NoToken ELSE lsToken
  /\ \/ clerkSignedIn /\ clerkSignedIn' = FALSE /\ effectDue' = TRUE
     \/ UNCHANGED <<clerkSignedIn, effectDue>>
  /\ authLast' = [op |-> "serviceLogout", success |-> TRUE]
  /\ aToast' = NoToast
  /\ UNCHANGED <<envKeyIsToken, user, authLoading, token, reloadDue, authCalls, issued>>
  /\ UNCHANGED <<wizardVars, editorVars, feedbackVars, dashVars>>

(***************************************************************************)
(* Dashboard                                                               *)
(***************************************************************************)
Projects == 1..3
NoDashLast == [kind |-> "none", pid |-> 0, outcome |-> "none", toast |-> NoToast]

MaxDashCalls == 4    \* dashboard requests sent in one run
MaxDashInFlight == 3 \* dashboard requests in flight together

\* an async handler invoked now: `captured` is the `projects` of its render
DashCall(kind, pid) ==
  [id |-> nDash + 1, kind |-> kind, pid |-> pid, phase |-> "sent",
   captured |-> projects, data |-> {}]

CanSendDash == nDash < MaxDashCalls /\ Cardinality(dashCalls) < MaxDashInFlight

\* first render with its effect `fetchProjects()` run
InitDashboard ==
  /\ srvProjects = Projects
  /\ projects = {}
  /\ listLoading = TRUE
  /\ dashCalls = {[id |-> 1, kind |-> "list", pid |-> 0, phase |-> "sent",
                   captured |-> {}, data |-> {}]}
  /\ nDash = 1
  /\ dashLast = NoDashLast
  /\ removed = {}

DashboardNotMounted ==
  /\ srvProjects = Projects
  /\ projects = {}
  /\ listLoading = TRUE
  /\ dashCalls = {}
  /\ nDash = 0
  /\ dashLast = NoDashLast
  /\ removed = {}

(* ---- handleSearch -> fetchProjects ---- *)
handleSearch ==
  /\ ~listLoading /\ CanSendDash
  /\ listLoading' = TRUE
  /\ dashCalls' = dashCalls \cup {DashCall("list", 0)}
  /\ nDash' = nDash + 1
  /\ UNCHANGED <<projects, dashLast, removed, srvProjects>>
  /\ UNCHANGED <<wizardVars, editorVars, feedbackVars, authVars>>

\* the server behind /projects: GET lists what is stored, DELETE removes a
\* stored project and fails for an unknown one
serverProjects(c) ==
  /\ c.phase = "sent"
  /\ \/ /\ c.kind = "list"
        /\ dashCalls' = (dashCalls \ {c}) \cup
                          {[c EXCEPT !.phase = "ok", !.data = srvProjects]}
        /\ UNCHANGED srvProjects
     \/ /\ c.kind = "delete" /\ c.pid \in srvProjects
        /\ dashCalls' = (dashCalls \ {c}) \cup {[c EXCEPT !.phase = "ok"]}
        /\ srvProjects' = srvProjects \ {c.pid}
     \/ /\ dashCalls' = (dashCalls \ {c}) \cup {[c EXCEPT !.phase = "err"]}
        /\ UNCHANGED srvProjects
  /\ UNCHANGED <<projects, listLoading, nDash, dashLast, removed>>
  /\ UNCHANGED <<wizardVars, editorVars, feedbackVars, authVars>>

\* after `await projectsAPI.getProjects(...)`: setProjects, or the catch; finally
fetchProjectsDone(c) ==
  /\ c.kind = "list" /\ c.phase # "sent"
  /\ dashCalls' = dashCalls \ {c}
  /\ listLoading' = FALSE
  /\ IF c.phase = "ok"
       THEN /\ projects' = c.data
            /\ removed' = {}
            /\ dashLast' = [kind |-> "list", pid |-> 0, outcome |-> "ok", toast |-> NoToast]
       ELSE /\ dashLast' = [kind |-> "list", pid |-> 0, outcome |-> "failed",
                            toast |-> "Error fetching projects"]
            /\ UNCHANGED <<projects, removed>>
  /\ UNCHANGED <<nDash, srvProjects>>
  /\ UNCHANGED <<wizardVars, editorVars, feedbackVars, authVars>>

(* ---- handleDelete ---- *)
\* window.confirm, then up to `await projectsAPI.deleteProject(projectId)`
handleDelete(projectId, confirmed) ==
  /\ ~listLoading /\ projectId \in projects
  /\ IF confirmed
       THEN /\ CanSendDash
            /\ dashCalls' = dashCalls \cup {DashCall("delete", projectId)}
            /\ nDash' = nDash + 1
            /\ UNCHANGED dashLast
       ELSE /\ dashLast' = [kind |-> "delete", pid |-> projectId,
                            outcome |-> "cancelled", toast |-> NoToast]
            /\ UNCHANGED <<dashCalls, nDash>>
  /\ UNCHANGED <<projects, listLoading, removed, srvProjects>>
  /\ UNCHANGED <<wizardVars, editorVars, feedbackVars, authVars>>

\* setProjects(projects.filter(p => p.id !== projectId)) with the captured list
projectsAfterDelete(c) == c.captured \ {c.pid}

\* after the await: setProjects and toast.success, or the catch
handleDeleteDone(c) ==
  /\ c.kind = "delete" /\ c.phase # "sent"
  /\ dashCalls' = dashCalls \ {c}
  /\ IF c.phase = "ok"
       THEN /\ projects' = projectsAfterDelete(c)
            /\ removed' = removed \cup {c.pid}
            /\ dashLast' = [kind |-> "delete", pid |-> c.pid, outcome |-> "ok",
                            toast |-> "Project deleted successfully"]
       ELSE /\ dashLast' = [kind |-> "delete", pid |-> c.pid, outcome |-> "failed",
                            toast |-> "Error deleting project"]
            /\ UNCHANGED <<projects, removed>>
  /\ UNCHANGED <<listLoading, nDash, srvProjects>>
  /\ UNCHANGED <<wizardVars, editorVars, feedbackVars, authVars>>

NextDashboard ==
  \/ handleSearch
  \/ \E c \in dashCalls : serverProjects(c)
  \/ \E c \in dashCalls : fetchProjectsDone(c)
  \/ \E p \in Projects, confirmed \in BOOLEAN : handleDelete(p, confirmed)
  \/ \E c \in dashCalls : handleDeleteDone(c)

NextAuth ==
  \/ initAuth
  \/ \E c \in authCalls : serverAuth(c)
  \/ \E c \in authCalls : initAuthDone(c)
  \/ pageReload
  \/ login
  \/ \E c \in authCalls : loginAnswered(c)
  \/ \E c \in authCalls : loginDone(c)
  \/ register
  \/ \E c \in authCalls : registerAnswered(c)
  \/ logout
  \/ \E c \in authCalls : logoutSignedOut(c)
  \/ \E c \in authCalls : logoutDone(c)
  \/ serviceLogout

(***************************************************************************)
(* Specifications: one page is mounted at a time                           *)
(***************************************************************************)
\* the editor while the wizard is the mounted page
EditorNotMounted ==
  /\ srvContent = [i \in Items |-> NoContent]
  /\ srvPending = [i \in Items |-> NoContent]
  /\ arrays = <<srvContent>>
  /\ project = NoProject
  /\ generating = NotGenerating
  /\ refinementPrompts = NoPrompts
  /\ refinementResults = NoResults
  /\ calls = {}
  /\ nCalls = 0
  /\ nTyped = 0
  /\ nGenerations = 0
  /\ last = NoLast
  /\ hist = [i \in Items |-> << >>]
  /\ comments = NoPrompts
  /\ srvFeedback = 0
  /\ nExtra = 0
  /\ downloads = 0

\* the pages behind ProtectedRoute are shown to a signed-in user
SignedIn ==
  /\ lsToken = 1 /\ token = 1 /\ user = "jwt" /\ issued = 1
  /\ envKeyIsToken = FALSE /\ clerkSignedIn = FALSE
  /\ authLoading = FALSE /\ effectDue = FALSE /\ reloadDue = FALSE
  /\ authCalls = {} /\ nAuth = 0
  /\ authLast = NoAuthLast /\ aToast = NoToast

InitWizardPage == InitWizard /\ EditorNotMounted /\ SignedIn /\ DashboardNotMounted

SpecWizard == InitWizardPage /\ [][NextWizard]_vars

\* the wizard's state stays as it was left
InitEditorPage == InitWizard /\ InitEditor /\ SignedIn /\ DashboardNotMounted

SpecEditor == InitEditorPage /\ [][NextEditor]_vars

SpecReview == InitEditorPage /\ [][NextReview]_vars

\* the application is loaded: only the AuthProvider acts
InitAuthPage == InitWizard /\ EditorNotMounted /\ InitAuth /\ DashboardNotMounted

SpecAuth == InitAuthPage /\ [][NextAuth]_vars

\* every request is answered, and React runs scheduled effects and continuations
SessionFairness ==
  /\ WF_vars(initAuth)
  /\ WF_vars(\E c \in authCalls : serverAuth(c))
  /\ WF_vars(\E c \in authCalls : initAuthDone(c))
  /\ WF_vars(pageReload)

\* the application is loaded by a visitor who may sign in on the Login page
NextSession ==
  \/ initAuth
  \/ \E c \in authCalls : serverAuth(c)
  \/ \E c \in authCalls : initAuthDone(c)
  \/ pageReload
  \/ login
  \/ \E c \in authCalls : loginAnswered(c)
  \/ \E c \in authCalls : loginDone(c)

SpecSession == InitAuthPage /\ [][NextSession]_vars /\ SessionFairness

InitDashboardPage == InitWizard /\ EditorNotMounted /\ SignedIn /\ InitDashboard

SpecDashboard == InitDashboardPage /\ [][NextDashboard]_vars

(***************************************************************************)
(* C1: the items of structure carry order values 1..N equal to their list  *)
(* position after any sequence of addSection, updateSection, removeSection *)
(* and moveSection, and so does every list createProject submits.          *)
(***************************************************************************)
OrdersAreOneToN(s) == \A k \in 1..Len(s) : s[k].order = k

C1_OrdersContiguous ==
  /\ OrdersAreOneToN(structure)
  /\ createCall.phase = "sent" => OrdersAreOneToN(createCall.items)

(***************************************************************************)
(* Steps of the editor named by the claims                                 *)
(***************************************************************************)
\* the response of call c is handled in this step
Handled(c) == c \in calls /\ calls' = calls \ {c}

\* the browser's view of the items and the server's
ClientUnchanged ==
  /\ project' = project /\ arrays' = arrays
  /\ refinementResults' = refinementResults
  /\ refinementPrompts' = refinementPrompts

ServerUnchanged == srvContent' = srvContent /\ srvPending' = srvPending

\* missing, empty or made of blanks only
OnlyWhitespace(prompt) ==
  \/ prompt = Undefined
  \/ \A k \in 1..Len(prompt) : prompt[k] = Blank

Later(a, b) == IF a.id > b.id THEN a ELSE b

(***************************************************************************)
(* C2: when refineContent succeeded twice in sequence on an item (the      *)
(* second call sent after the first completed, no accept in between), a    *)
(* following successful acceptRefinement sets the item's content to the    *)
(* refined content of the second call.                                     *)
(***************************************************************************)
C2_AcceptInstallsSecondRefine ==
  [][\A c \in calls :
       (/\ Handled(c) /\ c.kind = "accept" /\ c.phase = "ok"
        /\ c.expect # NoContent)
       => arrays'[project'.secs][c.item] = c.expect]_vars

(***************************************************************************)
(* C3: two refine requests on the same item in flight together: once both  *)
(* responses are handled, the item's pending result is the result of the   *)
(* later-sent call, which is also what the server holds as pending.        *)
(***************************************************************************)
C3_RaceLaterIssuedWins ==
  \A i \in Items :
    (/\ Len(hist[i]) = 2
     /\ Overlapped(hist[i][1], hist[i][2])
     /\ InFlight("refine", i) = {} /\ InFlight("accept", i) = {})
    => /\ refinementResults[i] = Text(Later(hist[i][1], hist[i][2]))
       /\ srvPending[i] = Text(Later(hist[i][1], hist[i][2]))

(***************************************************************************)
(* C4: refine requests on two different items in flight together do not    *)
(* interact: after both succeeded each item has its own pending result.    *)
(***************************************************************************)
C4_RefinesOnDifferentItemsIndependent ==
  \A i, j \in Items :
    (/\ i # j
     /\ hist[i] # << >> /\ hist[j] # << >>
     /\ Overlapped(hist[i][Len(hist[i])], hist[j][Len(hist[j])])
     /\ \A c \in calls : c.kind \notin {"refine", "accept"})
    => /\ refinementResults[i] = Text(hist[i][Len(hist[i])])
       /\ refinementResults[j] = Text(hist[j][Len(hist[j])])

(***************************************************************************)
(* C5: accept for an item without a pending refinement result fails with   *)
(* an error shown and changes no content and no pending result: the page   *)
(* sends no accept for an item it shows no result for, the server answers  *)
(* an accept that finds nothing pending with NoPendingRefinement and keeps *)
(* its state, and handling that answer changes nothing but the toast.      *)
(***************************************************************************)
C5_AcceptWithoutPendingFails ==
  /\ [](\A c \in calls : c.kind = "accept" => c.cResults[c.item] # Null)
  /\ [][\A c \in calls :
          /\ (/\ c.kind = "accept" /\ c.phase = "sent"
              /\ srvPending[c.item] = NoContent
              /\ c \notin calls')
             => /\ [c EXCEPT !.phase = "err", !.reason = "NoPendingRefinement"] \in calls'
                /\ ServerUnchanged /\ ClientUnchanged
          /\ (/\ Handled(c) /\ c.kind = "accept" /\ c.phase = "err")
             => /\ ClientUnchanged /\ ServerUnchanged
                /\ last'.toast = "Error accepting refinement"]_vars

C5_Witness ==
  /\ last.kind = "accept" /\ last.outcome = "NoPendingRefinement"
  /\ last.toast = "Error accepting refinement"

(***************************************************************************)
(* C6: a successful accept for item i with pending result R sets the       *)
(* content of i to R, clears the pending result of i and leaves content    *)
(* and pending results of every other item unchanged, also results of      *)
(* refine calls on other items completed while the accept was in flight.   *)
(***************************************************************************)
C6_AcceptTouchesOnlyItsItem ==
  [][\A c \in calls :
       (Handled(c) /\ c.kind = "accept" /\ c.phase = "ok")
       => /\ arrays'[project'.secs][c.item] = c.cResults[c.item]
          /\ refinementResults'[c.item] = Null
          /\ \A j \in Items \ {c.item} :
               /\ refinementResults'[j] = refinementResults[j]
               /\ arrays'[project'.secs][j] = arrays[project.secs][j]]_vars

(***************************************************************************)
(* C7: rejectRefinement is idempotent: it always succeeds, leaves the      *)
(* item's content unchanged and the item without pending result, with or   *)
(* without a pending result before; two rejects give the state of one.     *)
(***************************************************************************)
C7_RejectIdempotent ==
  /\ [](\A i \in Items :
          LET once == rejectRefinementResult(refinementResults, i)
              twice == rejectRefinementResult(once, i)
          IN  once[i] = Null /\ twice = once)
  /\ [][\A i \in Items :
          rejectRefinement(i)
          => /\ refinementResults'[i] = Null
             /\ arrays'[project'.secs] = arrays[project.secs]
             /\ last'.outcome = "ok" /\ last'.toast = "Refinement rejected"]_vars

C7_Witness ==
  /\ last.kind = "reject" /\ last.item \in Items
  /\ refinementResults[last.item] = Null
  /\ ItemContent(last.item) # NoContent
  /\ \E j \in Items : refinementResults[j] # Null

(***************************************************************************)
(* C8: after reject the item is Stable everywhere: no pending result for   *)
(* it remains on the client nor in the server state an accept acts on.     *)
(***************************************************************************)
C8_RejectClearsEverywhere ==
  (/\ last.kind = "reject"
   /\ \A c \in calls : c.item # last.item)
  => /\ refinementResults[last.item] = Null
     /\ srvPending[last.item] = NoContent

(***************************************************************************)
(* C9: refineContent with a missing, empty or whitespace-only instruction  *)
(* sends no request and changes nothing but the error toast.               *)
(***************************************************************************)
C9_BlankPromptSendsNothing ==
  [][\A i \in Items :
       (refineContent(i) /\ OnlyWhitespace(refinementPrompts[i]))
       => /\ calls' = calls /\ nCalls' = nCalls
          /\ ClientUnchanged /\ ServerUnchanged
          /\ last' = Done("refine", i, "invalid", "Please enter a refinement prompt")]_vars

C9_Witness ==
  /\ last.outcome = "invalid" /\ last.item \in Items
  /\ refinementPrompts[last.item] = <<Blank>>
  /\ \E j \in Items : refinementPrompts[j] = Undefined
  /\ calls = {}

(***************************************************************************)
(* C10: no refine request is sent for an item without content: every       *)
(* refine request in flight named an item whose content was non-empty      *)
(* when it was sent.                                                       *)
(***************************************************************************)
C10_RefineOnlyWithContent ==
  \A c \in calls : c.kind = "refine" => c.atSend # NoContent

C10_Witness ==
  /\ \E c \in calls : c.kind = "refine" /\ c.phase = "sent"
  /\ \E j \in Items : ItemContent(j) = NoContent

(***************************************************************************)
(* C11: submitFeedback does not affect the refinement state machine: on    *)
(* success or failure it leaves every item's content, pending refinement   *)
(* result and refinement prompt unchanged, in the page and on the server;  *)
(* on success its only state change is clearing the comment of its item,   *)
(* on failure it changes no comment.                                       *)
(***************************************************************************)
C11_FeedbackOnlyClearsItsComment ==
  [][\A c \in calls :
       /\ (c.kind = "feedback" /\ c \notin calls')
          => ClientUnchanged /\ ServerUnchanged
       /\ (Handled(c) /\ c.kind = "feedback")
          => comments' = IF c.phase = "ok"
                           THEN [comments EXCEPT ![c.item] = EmptyStr]
                           ELSE comments]_vars

C18_FailedGenerationInventsNothing ==
  [][\A c \in calls :
       (Handled(c) /\ c.kind \in {"generate", "generateAll"} /\ c.phase = "err")
       => /\ project' = project /\ arrays' = arrays
          /\ srvContent' = srvContent
          /\ last'.outcome = "failed"
          /\ last'.toast = IF c.kind = "generate"
                              THEN "Error generating content"
                              ELSE "Error generating all content"]_vars

C18_Witness ==
  /\ last.kind = "generate" /\ last.outcome = "failed"
  /\ ItemContent(last.item) = NoContent
  /\ \E c \in calls : c.kind = "generateAll" /\ c.phase = "err"

(***************************************************************************)
(* C17: the wizard never sends a create-project request, from              *)
(* createProject or for the temporary project of generateAIOutline, whose  *)
(* title or topic is empty or blank or whose document_type is not docx or  *)
(* pptx, in any order of Continue / Back navigation and field edits.       *)
(***************************************************************************)
NonBlank(text) == \E k \in 1..Len(text) : text[k] # Blank

ValidProjectInput(form) ==
  /\ NonBlank(form.title) /\ NonBlank(form.topic)
  /\ form.document_type \in {"docx", "pptx"}

C17_CreateRequestsAreValid ==
  /\ createCall.phase = "sent" => ValidProjectInput(createCall)
  /\ outlineCall.phase = "create" => ValidProjectInput(outlineCall.form)

C17_Witness ==
  /\ createCall.phase = "sent" /\ createCall.document_type = "pptx"
  /\ wToast = "error"
  /\ tempProjects = 1

(***************************************************************************)
(* C12: after a logout operation completed (AuthProvider.logout with its   *)
(* authAPI.logout, or AuthService.logout, whether or not the request to    *)
(* the server succeeded) and until the next login, no bearer token is left *)
(* in client storage and the session is cleared (user is null).            *)
(***************************************************************************)
C12_LogoutClearsSession ==
  (/\ authLast.op \in {"logout", "serviceLogout"}
   /\ \A c \in authCalls : c.kind \notin {"login", "register"})
  => /\ lsToken = NoToken
     /\ user = NoUser

(***************************************************************************)
(* Steps of the AuthProvider named by the claims                           *)
(***************************************************************************)
\* the answer to call c is consumed by its handler in this step
Answered(c) == c \in authCalls /\ c.phase # "sent" /\ c \notin authCalls' /\ ~reloadDue

(***************************************************************************)
(* C13: when login or register returns {success: true}, the bearer token   *)
(* the server issued is in client storage under the key the request        *)
(* interceptor reads and user is set, so isAuthenticated is true; for      *)
(* register also when the automatic login after it failed.                 *)
(***************************************************************************)
C13_SuccessMeansSignedIn ==
  [][\A c \in authCalls :
       (/\ loginAnswered(c) \/ loginDone(c)
        /\ c \notin authCalls'
        /\ authLast'.op \in {"login", "register"} /\ authLast'.success)
       => /\ lsToken' # NoToken
          /\ user' # NoUser]_vars

(***************************************************************************)
(* C14: every request other than register and login that is sent while    *)
(* the client takes the user for authenticated (bearer token or hosted     *)
(* identity provider) carries the Authorization header with the current    *)
(* session token; register and login requests carry none.                  *)
(***************************************************************************)
C14_AuthorizationHeader ==
  \A c \in authCalls :
    /\ c.step \in {"login", "register"} => c.hdr = NoToken
    /\ (c.step \in {"me", "logout"} /\ c.authed) => c.hdr # NoToken

(***************************************************************************)
(* C15: every failed API call ends in a notification the user sees: when   *)
(* the answer to a failed session-restore or login request is handled, an  *)
(* error toast is shown.                                                   *)
(***************************************************************************)
C15_FailureIsShown ==
  [][\A c \in authCalls :
       (/\ Answered(c)
        /\ c.phase \in {"err", "err401"}
        /\ c.kind = "initAuth" \/ (c.kind = "login" /\ c.parent = "none"))
       => aToast' = "error"]_vars

(***************************************************************************)
(* C19: after a confirmed delete of project P succeeded, P is not in the   *)
(* displayed list until the list is refetched, also when deletes of other  *)
(* projects were in flight together with it; a cancelled or failed delete  *)
(* leaves the list unchanged.                                              *)
(***************************************************************************)
C19_DeletedStaysAbsent ==
  /\ [](projects \cap removed = {})
  /\ [][/\ \A p \in Projects : handleDelete(p, FALSE) => projects' = projects
        /\ \A c \in dashCalls :
             (handleDeleteDone(c) /\ c.phase = "err") => projects' = projects]_vars

C21_NoTemporaryProjectLeft ==
  outlineCall.phase = "idle" => tempProjects = 0

(***************************************************************************)
(* C22: while a generateContent request for an item is in flight,          *)
(* generating[item] is true, also when generation requests for other items *)
(* start or finish meanwhile; so at most one generation request per item   *)
(* is in flight, and generating[item] is not true once it has completed.   *)
(***************************************************************************)
C22_GeneratingFollowsRequests ==
  \A i \in Items :
    LET running == InFlight("generate", i)
    IN  /\ Cardinality(running) <= 1
        /\ running # {} => generating[i] = TRUE
        /\ running = {} => generating[i] # TRUE

(***************************************************************************)
(* C23: content installed by a completed generation is not lost to a       *)
(* generation that completes later: handling a successful single-item      *)
(* generateContent leaves the displayed content of every other item as it  *)
(* was (whether installed by generateAllContent or by another single-item  *)
(* generation) and does not take back the status 'completed'.              *)
(***************************************************************************)
C23_LaterGenerationKeepsContent ==
  [][\A c \in calls :
       (Handled(c) /\ c.kind = "generate" /\ c.phase = "ok")
       => /\ \A j \in Items \ {c.item} :
               arrays'[project'.secs][j] = arrays[project.secs][j]
          /\ project.status = "completed" => project'.status = "completed"]_vars

(***************************************************************************)
(* C24: a pending refinement result of an item is a refinement of its      *)
(* current content: when handling a successful generateContent or          *)
(* generateAllContent replaces the displayed content of an item, no        *)
(* refinement result remains pending for that item afterwards.             *)
(***************************************************************************)
C24_GenerationDropsPendingResult ==
  [][\A c \in calls :
       (Handled(c) /\ c.kind \in {"generate", "generateAll"} /\ c.phase = "ok")
       => \A i \in Items :
            arrays'[project'.secs][i] # arrays[project.secs][i]
            => refinementResults'[i] = Null]_vars

(***************************************************************************)
(* C29: when a refine or an accept request is rejected by the network or   *)
(* the server, handling the rejection leaves the editor state as it was:   *)
(* content, pending refinement results and typed prompts of every item are *)
(* unchanged and only the error toast is shown, so the action can be       *)
(* retried.                                                                *)
(***************************************************************************)
C29_RejectedRequestChangesNothing ==
  [][\A c \in calls :
       (Handled(c) /\ c.kind \in {"refine", "accept"} /\ c.phase = "err")
       => /\ ClientUnchanged
          /\ last'.toast = IF c.kind = "refine"
                              THEN "Error refining content"
                              ELSE "Error accepting refinement"]_vars

C29_Witness ==
  /\ last.kind = "refine" /\ last.outcome = "failed"
  /\ refinementPrompts[last.item] # Undefined
  /\ Truthy(refinementPrompts[last.item])
  /\ \E c \in calls : /\ c.kind = "accept" /\ c.phase = "err"
                      /\ refinementResults[c.item] # Null

(***************************************************************************)
(* C28: moveSection(index, direction) keeps the items and the length of    *)
(* structure: for a target in range it swaps the item at index with its    *)
(* neighbour and leaves the item at every other position; at a boundary    *)
(* it changes nothing; moving an item up and then the item now at index-1  *)
(* down gives back the original arrangement.  Items are compared by id and *)
(* title: order is the field moveSection rewrites to the position.         *)
(***************************************************************************)
ItemAt(s, k) == [id |-> s[k].id, title |-> s[k].title]

Arrangement(s) == [k \in 1..Len(s) |-> ItemAt(s, k)]

C28_MoveSectionSwaps ==
  \A index \in 1..Len(structure), direction \in {"up", "down"} :
    LET target == IF direction = "up" THEN index - 1 ELSE index + 1
        moved == moveSectionResult(structure, index, direction)
    IN  /\ Len(moved) = Len(structure)
        /\ IF target \in 1..Len(structure)
             THEN /\ ItemAt(moved, index) = ItemAt(structure, target)
                  /\ ItemAt(moved, target) = ItemAt(structure, index)
                  /\ \A k \in 1..Len(structure) \ {index, target} :
                       ItemAt(moved, k) = ItemAt(structure, k)
             ELSE moved = structure
        /\ (direction = "up" /\ index > 1)
             => Arrangement(moveSectionResult(moved, index - 1, "down"))
                  = Arrangement(structure)

\* two sections added one after the other and then moved
C28_Witness ==
  /\ Len(structure) = 2
  /\ structure[1].id > structure[2].id
  /\ structure[1].order = 1 /\ structure[2].order = 2

(***************************************************************************)
(* C25: with the hosted identity provider out of play, in every reachable  *)
(* state of the auth context (a page about to reload after a 401 aside)    *)
(* isAuthenticated implies that a bearer token is in client storage and in *)
(* the context's token state, also when the session restore triggered by a *)
(* token change runs together with login's own /auth/me call.              *)
(***************************************************************************)
C25_AuthenticatedHasToken ==
  (~clerkSignedIn /\ ~reloadDue /\ isAuthenticated)
  => lsToken # NoToken /\ token # NoToken

(***************************************************************************)
(* C26: a login that returns {success: false} leaves the session as it was *)
(* before the call, whichever step failed (the login request or the        *)
(* /auth/me request after it): the token the server issued to it, if any,  *)
(* is neither in client storage nor in the context's token state (unless   *)
(* the page is about to reload after a 401), and user is unchanged.        *)
(***************************************************************************)
C26_FailedLoginLeavesSession ==
  [][\A c \in authCalls :
       (/\ loginAnswered(c) \/ loginDone(c)
        /\ c \notin authCalls'
        /\ c.parent = "none"
        /\ authLast' = [op |-> "login", success |-> FALSE])
       => /\ user' = user
          /\ c.tok # NoToken => (lsToken' # c.tok /\ (reloadDue' \/ token' # c.tok))
          /\ c.tok = NoToken => token' = token]_vars

(***************************************************************************)
(* C27: for every response with status 401, whatever the request (a login  *)
(* with bad credentials included), the response interceptor removes the    *)
(* token from client storage, redirects the browser to /login and still    *)
(* rejects the call, so the caller's error handling and not its success    *)
(* path runs; a response with another status causes no redirect and the    *)
(* interceptor leaves client storage as it is.                             *)
(***************************************************************************)
C27_UnauthorizedClearsAndRedirects ==
  [][\A c \in authCalls :
       Answered(c)
       => IF c.phase = "err401"
            THEN /\ lsToken' = NoToken
                 /\ reloadDue'
                 /\ user' \in {user, NoUser}
                 /\ (c.kind = "login" /\ c.parent = "none")
                      => authLast' = [op |-> "login", success |-> FALSE]
            ELSE /\ ~reloadDue'
                 /\ (c.step \in {"login", "register"} /\ c.phase = "err")
                      => lsToken' = lsToken
                 /\ (c.kind = "login" /\ c.step = "me") => lsToken' = lsToken]_vars

\* a login answered with 401 while a token was stored
C27_Witness ==
  /\ authLast = [op |-> "login", success |-> FALSE]
  /\ aToast = "error"
  /\ reloadDue
  /\ lsToken = NoToken /\ token # NoToken

====
